---- MODULE Spec2Model ----
(***************************************************************************)
(* Model of src/export.py: the streaming export of beacon-chain blocks and *)
(* states from a LevelDB store into batched CSV artifacts.                 *)
(*                                                                         *)
(* One behaviour is one invocation of the script: __main__ reads the       *)
(* arguments, export_data opens the store, iterates the prefixed sub-db,   *)
(* parses every value, flushes every step_size items, flushes the rest     *)
(* after the loop, and closes the store in its finally block.              *)
(***************************************************************************)
EXTENDS Integers, Sequences, FiniteSets, TLC

(***************************************************************************)
(* Bounds of the model.                                                    *)
(***************************************************************************)
\* Largest number of key/value pairs under the iterated prefix.
MaxItems == 4
\* Largest slot a stored block or state carries.
MaxSlot == 1
\* Largest step size given on the command line.
MaxStep == 2
\* Longest aggregation bit vector handed to bitlist_to_str on its own.
MaxBits == 5

(***************************************************************************)
(* Values of the Python program.                                           *)
(***************************************************************************)
\* An optional command-line argument: <<>> when the flag was not given (None),
\* <<n>> for a string that int() turns into n.
NotGiven == <<>>

\* end_slot is an integer or math.inf; Finite(n) is the integer n.
Inf == [inf |-> TRUE, val |-> 0]

Finite(n) == [inf |-> FALSE, val |-> n]

\* `items = None`: the batch buffer before the first parse of a batch.  The
\* buffer is a dict from kind to list; None is represented by the dict with
\* no key, which the program never builds.
NoItems == [k \in {} |-> <<>>]

IsNone(items) == DOMAIN items = {}

BLOCK_PREFIX == "blk"

STATE_PREFIX == "ste"

BLOCK_COLS == <<"block_root", "parent_root", "state_root", "slot", "proposer_index">>

ATTESTATION_COLS == <<"slot", "att_slot", "committee_index", "beacon_block_root",
                      "attesting_indices", "source_epoch", "source_block_root",
                      "target_epoch", "target_block_root">>

DEPOSIT_COLS == <<"slot", "pubkey", "amount">>

EXIT_COLS == <<"slot", "exit_epoch", "validator_index">>

STATE_COLS == <<"state_root", "slot">>

\* The default of --stepsize.
DefaultStepSize == 1000

\* The default of start_slot, in __main__ and in the parse functions.
DefaultStartSlot == 0

(***************************************************************************)
(* Python arithmetic: // floors and % takes the sign of the divisor.       *)
(* Neither is evaluated with b = 0 (ZeroDivisionError is an outcome of the *)
(* loop step).                                                             *)
(***************************************************************************)
PyFloorDiv(a, b) == IF b > 0 THEN a \div b ELSE (0 - a) \div (0 - b)

PyMod(a, b) == a - b * PyFloorDiv(a, b)

\* slot < start_slot or slot >= end_slot, with end_slot possibly math.inf.
OutOfRange(slot, start, end) == slot < start \/ (~end.inf /\ slot >= end.val)

(***************************************************************************)
(* The stored objects.  A value of the store is a byte string that either  *)
(* decodes to an object or makes decode_bytes raise.                       *)
(***************************************************************************)
Att1 == [slot |-> 0, index |-> 0, beacon_block_root |-> "r1",
         aggregation_bits |-> <<1, 0, 1, 1>>,
         source |-> [epoch |-> 0, root |-> "s1"],
         target |-> [epoch |-> 1, root |-> "t1"]]

Att2 == [slot |-> 1, index |-> 1, beacon_block_root |-> "r2",
         aggregation_bits |-> <<>>,
         source |-> [epoch |-> 0, root |-> "s2"],
         target |-> [epoch |-> 1, root |-> "t2"]]

Dep1 == [pubkey |-> "pk1", amount |-> 32]

Exit1 == [epoch |-> 3, validator_index |-> 7]

EmptyBody == [attestations |-> <<>>, deposits |-> <<>>, voluntary_exits |-> <<>>]

FullBody == [attestations |-> <<Att1, Att2>>, deposits |-> <<Dep1>>,
             voluntary_exits |-> <<Exit1>>]

Slots == 0..MaxSlot

\* spec.SignedBeaconBlock values (message fields flattened): the block of
\* slot 0 (genesis) has an empty body, the later blocks carry operations.
SignedBeaconBlocks ==
    {[slot |-> s, parent_root |-> "pr", state_root |-> "sr", proposer_index |-> 0,
      body |-> IF s = 0 THEN EmptyBody ELSE FullBody] : s \in Slots}

\* spec.BeaconState values.
BeaconStates == [slot : Slots]

\* A value that does not deserialise.
Corrupt == [ok |-> FALSE]

BlockValues == {[ok |-> TRUE, obj |-> b] : b \in SignedBeaconBlocks} \cup {Corrupt}

StateValues == {[ok |-> TRUE, obj |-> s] : s \in BeaconStates} \cup {Corrupt}

\* Sequences over S of length at most n.
SeqUpTo(S, n) == UNION {[1..k -> S] : k \in 0..n}

HexDigit == <<"0", "1", "2", "3", "4", "5", "6", "7", "8", "9",
              "a", "b", "c", "d", "e", "f">>

\* bytes.hex() of a one-byte key.
Hex(key) == HexDigit[(key \div 16) + 1] \o HexDigit[(key % 16) + 1]

(***************************************************************************)
(* Record extraction.                                                      *)
(***************************************************************************)
\* bitlist_to_str joining the characters last bit first.
RECURSIVE bitlist_to_str_reversed(_)
bitlist_to_str_reversed(bitlist) ==
    IF bitlist = <<>> THEN ""
    ELSE bitlist_to_str_reversed(Tail(bitlist)) \o (IF Head(bitlist) # 0 THEN "1" ELSE "0")

\* Lines 37-38: ''.join('1' if b else '0' for b in bitlist).
RECURSIVE bitlist_to_str(_)
bitlist_to_str(bitlist) ==
    IF bitlist = <<>> THEN ""
    ELSE (IF Head(bitlist) # 0 THEN "1" ELSE "0") \o bitlist_to_str(Tail(bitlist))

extract_block(sbb, block_root) ==
    <<"0x" \o Hex(block_root), sbb.parent_root, sbb.state_root, sbb.slot,
      sbb.proposer_index>>

\* extract_attestations with the attestation's own data.slot in the slot
\* column instead of the slot of the enclosing block.
extract_attestations_own_slot(sbb) ==
    [i \in 1..Len(sbb.body.attestations) |->
        LET a == sbb.body.attestations[i]
        IN  <<a.slot, a.slot, a.index, a.beacon_block_root,
              bitlist_to_str(a.aggregation_bits),
              a.source.epoch, a.source.root, a.target.epoch, a.target.root>>]

extract_attestations(sbb) ==
    [i \in 1..Len(sbb.body.attestations) |->
        LET a == sbb.body.attestations[i]
        IN  <<sbb.slot, a.slot, a.index, a.beacon_block_root,
              bitlist_to_str(a.aggregation_bits),
              a.source.epoch, a.source.root, a.target.epoch, a.target.root>>]

extract_deposits(sbb) ==
    [i \in 1..Len(sbb.body.deposits) |->
        LET d == sbb.body.deposits[i]
        IN  <<sbb.slot, d.pubkey, d.amount>>]

extract_exits(sbb) ==
    [i \in 1..Len(sbb.body.voluntary_exits) |->
        LET e == sbb.body.voluntary_exits[i]
        IN  <<sbb.slot, e.epoch, e.validator_index>>]

extract_state(bs, state_root) == <<"0x" \o Hex(state_root), bs.slot>>

(***************************************************************************)
(* The parse functions.  Each returns the pair (items, slot) of the code   *)
(* as a record; `raised` tells that the call raised instead of returning   *)
(* (the caller's variables then keep their values).                        *)
(***************************************************************************)
NewStateItems == [states |-> <<>>]

NewBlockItems == [blocks |-> <<>>, attestations |-> <<>>, deposits |-> <<>>,
                  exits |-> <<>>]

parse_state_data(state_key, state_bytes, items, start, end) ==
    LET its == IF IsNone(items) THEN NewStateItems ELSE items
    IN  IF ~state_bytes.ok
        THEN \* except: print("error on deserialise"); return (items, 0)
             [raised |-> FALSE, items |-> its, slot |-> 0]
        ELSE LET beacon_state == state_bytes.obj
                 state_slot == beacon_state.slot
             IN  IF OutOfRange(state_slot, start, end)
                 THEN [raised |-> FALSE, items |-> its, slot |-> state_slot]
                 ELSE [raised |-> FALSE,
                       items |-> [its EXCEPT !.states =
                                    Append(@, extract_state(beacon_state, state_key))],
                       slot |-> state_slot]

\* parse_block_data with the decode wrapped in the try/except of
\* parse_state_data: a corrupt block is skipped instead of raising.
parse_block_data_recovering(block_key, block_bytes, items, start, end) ==
    LET its == IF IsNone(items) THEN NewBlockItems ELSE items
    IN  IF ~block_bytes.ok
        THEN [raised |-> FALSE, items |-> its, slot |-> 0]
        ELSE LET signed_beacon_block == block_bytes.obj
                 block_slot == signed_beacon_block.slot
             IN  IF OutOfRange(block_slot, start, end)
                 THEN [raised |-> FALSE, items |-> its, slot |-> block_slot]
                 ELSE [raised |-> FALSE,
                       items |-> [its EXCEPT
                          !.blocks = Append(@, extract_block(signed_beacon_block, block_key)),
                          !.attestations = @ \o extract_attestations(signed_beacon_block),
                          !.deposits = @ \o extract_deposits(signed_beacon_block),
                          !.exits = @ \o extract_exits(signed_beacon_block)],
                       slot |-> block_slot]

parse_block_data(block_key, block_bytes, items, start, end) ==
    LET its == IF IsNone(items) THEN NewBlockItems ELSE items
    IN  IF ~block_bytes.ok
        THEN \* decode_bytes raises; nothing is returned
             [raised |-> TRUE, items |-> items, slot |-> 0]
        ELSE LET signed_beacon_block == block_bytes.obj
                 block_slot == signed_beacon_block.slot
             IN  IF OutOfRange(block_slot, start, end)
                 THEN [raised |-> FALSE, items |-> its, slot |-> block_slot]
                 ELSE [raised |-> FALSE,
                       items |-> [its EXCEPT
                          !.blocks = Append(@, extract_block(signed_beacon_block, block_key)),
                          !.attestations = @ \o extract_attestations(signed_beacon_block),
                          !.deposits = @ \o extract_deposits(signed_beacon_block),
                          !.exits = @ \o extract_exits(signed_beacon_block)],
                       slot |-> block_slot]

(***************************************************************************)
(* The output directory is a function from file name to file content.  The *)
(* name <<kind, n>> stands for f"{out_dir}/{kind}_{n}.csv"; a content is   *)
(* the header row and the data rows that reached the file.                 *)
(*                                                                         *)
(* A write can fail (unwritable directory, full disk).  A fault names the  *)
(* kind whose file fails and how far it got: "open" when open() raised     *)
(* (the file is untouched), "write" when the file was opened, hence        *)
(* truncated, and only its first n lines (the header is line 1) reached it *)
(* before a write raised.  NoFault is a call in which every write succeeds.*)
(***************************************************************************)
NoFault == [kind |-> "none", how |-> "none", n |-> 0]

Faults(kinds, items) ==
    {NoFault}
    \cup {[kind |-> k, how |-> "open", n |-> 0] : k \in kinds}
    \cup UNION {{[kind |-> k, how |-> "write", n |-> i] : i \in 0..Len(items[k])}
                : k \in kinds}

\* open(file, 'a') instead of 'w': the rows are added to those of an
\* existing file.
SetFile_append(dir, name, content) ==
    [f \in DOMAIN dir \cup {name} |->
        IF f # name THEN dir[f]
        ELSE IF name \in DOMAIN dir
        THEN [header |-> dir[name].header, rows |-> dir[name].rows \o content.rows]
        ELSE content]

\* open(file, 'w') followed by the writes: the file holds content only.
SetFile(dir, name, content) ==
    [f \in DOMAIN dir \cup {name} |-> IF f = name THEN content ELSE dir[f]]

\* One `with open(file, 'w') as f: ...` block of a write function, applied to
\* the state st = [dir, raised, opened] of the call so far.
WriteCsv(st, kind, cols, n, items, fault) ==
    LET name == <<kind, n>>
    IN  IF st.raised THEN st
        ELSE IF fault.kind # kind
        THEN [dir |-> SetFile(st.dir, name, [header |-> cols, rows |-> items[kind]]),
              raised |-> FALSE, opened |-> Append(st.opened, name)]
        ELSE IF fault.how = "open"
        THEN [dir |-> st.dir, raised |-> TRUE, opened |-> st.opened]
        ELSE [dir |-> SetFile(st.dir, name,
                        IF fault.n = 0 THEN [header |-> <<>>, rows |-> <<>>]
                        ELSE [header |-> cols,
                              rows |-> SubSeq(items[kind], 1, fault.n - 1)]),
              raised |-> TRUE, opened |-> Append(st.opened, name)]

write_state_data(out_dir, count, step_size, items, fault) ==
    WriteCsv([dir |-> out_dir, raised |-> FALSE, opened |-> <<>>],
             "states", STATE_COLS, PyFloorDiv(count, step_size), items, fault)

write_block_data(out_dir, count, step_size, items, fault) ==
    LET n  == PyFloorDiv(count, step_size)
        s0 == [dir |-> out_dir, raised |-> FALSE, opened |-> <<>>]
        s1 == WriteCsv(s0, "blocks", BLOCK_COLS, n, items, fault)
        s2 == WriteCsv(s1, "attestations", ATTESTATION_COLS, n, items, fault)
        s3 == WriteCsv(s2, "deposits", DEPOSIT_COLS, n, items, fault)
    IN  WriteCsv(s3, "exits", EXIT_COLS, n, items, fault)

(***************************************************************************)
(* The state of one invocation.                                            *)
(***************************************************************************)
VARIABLES
    args,          \* the parsed command line
    item_prefix,   \* the prefix export_data is called with (selects the pipeline)
    sub_db,        \* the values under the prefix, in key order; key i is byte i
    pc,            \* "main", "export", "loop", "finally", "returned", "raised", "exit"
    start_slot,    \* arguments of export_data
    end_slot,
    step_size,
    db,            \* the store handle: "unopened", "open" or "closed"
    highest_slot,  \* locals of export_data
    items,
    count,
    db_count,
    exc,           \* an exception is propagating through the finally block
    out_dir,       \* the files of the output directory
    opened,        \* history: the file names opened for writing, in order
    extracted,     \* history: every record the parse function appended, per kind
    closes,        \* history: how many times db.close() ran
    runs,          \* how many invocations returned before this one
    first_out,     \* the output directory as the first invocation left it
    bitlist,       \* an aggregation bit vector converted on its own
    bitstr         \* the string bitlist_to_str returned for it

\* What no step of an invocation touches.
outside == <<runs, first_out, bitlist, bitstr>>

vars == <<args, item_prefix, sub_db, pc, start_slot, end_slot, step_size, db,
          highest_slot, items, count, db_count, exc, out_dir, opened, extracted,
          closes, runs, first_out, bitlist, bitstr>>

\* The pipeline the prefix selects: the (parse_fun, write_fun) pair of the call.
IsBlockPipeline == item_prefix = BLOCK_PREFIX

Kinds == IF IsBlockPipeline THEN {"blocks", "attestations", "deposits", "exits"}
         ELSE {"states"}

parse_fun(key, value, its) ==
    \* the call of line 192 passes neither start_slot nor end_slot: the parse
    \* function runs with its defaults
    IF IsBlockPipeline
    THEN parse_block_data(key, value, its, DefaultStartSlot, Inf)
    ELSE parse_state_data(key, value, its, DefaultStartSlot, Inf)

write_fun(dir, cnt, step, its, fault) ==
    IF IsBlockPipeline
    THEN write_block_data(dir, cnt, step, its, fault)
    ELSE write_state_data(dir, cnt, step, its, fault)

\* The command lines: both directories given with any mix of the optional
\* flags, or a directory missing.
StepArgs == {NotGiven} \cup {<<n>> : n \in 0..MaxStep}

\* <<--startslot, --endslot>>: no window, or the window from slot 1 to slot
\* MaxSlot, which leaves out slot 0 below it and slot MaxSlot above it.
WindowArgs == {<<NotGiven, NotGiven>>, << <<1>>, <<MaxSlot>> >>}

ArgSets ==
    {[dirs |-> TRUE, stepsize |-> s, startslot |-> w[1], endslot |-> w[2]] :
        s \in StepArgs, w \in WindowArgs}
    \cup {[dirs |-> FALSE, stepsize |-> NotGiven, startslot |-> NotGiven,
           endslot |-> NotGiven]}

\* A process about to run __main__ with command line a over the store values
\* vals under prefix p, before any invocation has run.
Start(a, p, vals) ==
    /\ args = a
    /\ item_prefix = p
    /\ sub_db = vals
    /\ pc = "main"
    /\ start_slot = DefaultStartSlot
    /\ end_slot = Inf
    /\ step_size = DefaultStepSize
    /\ db = "unopened"
    /\ highest_slot = 1
    /\ items = NoItems
    /\ count = 0
    /\ db_count = 0
    /\ exc = FALSE
    /\ out_dir = [f \in {} |-> <<>>]
    /\ opened = <<>>
    /\ extracted = [k \in IF p = BLOCK_PREFIX
                           THEN {"blocks", "attestations", "deposits", "exits"}
                           ELSE {"states"} |-> <<>>]
    /\ closes = 0
    /\ runs = 0
    /\ first_out = [f \in {} |-> <<>>]

Init ==
    /\ \E a \in ArgSets, p \in {BLOCK_PREFIX, STATE_PREFIX} :
          \E vals \in SeqUpTo(IF p = BLOCK_PREFIX THEN BlockValues ELSE StateValues,
                              MaxItems) :
              Start(a, p, vals)
    /\ bitlist = <<>>
    /\ bitstr = ""

(***************************************************************************)
(* __main__: the usage message when a directory is missing, else the call  *)
(* of export_data with the arguments converted by int().                   *)
(***************************************************************************)
Main ==
    /\ pc = "main"
    /\ IF ~args.dirs
       THEN /\ pc' = "exit"
            /\ UNCHANGED <<start_slot, end_slot, step_size>>
       ELSE /\ start_slot' = IF args.startslot # NotGiven THEN args.startslot[1]
                             ELSE DefaultStartSlot
            /\ end_slot' = IF args.endslot # NotGiven THEN Finite(args.endslot[1])
                           ELSE Inf
            /\ step_size' = IF args.stepsize # NotGiven THEN args.stepsize[1]
                            ELSE DefaultStepSize
            /\ pc' = "export"
    /\ UNCHANGED <<args, item_prefix, sub_db, db, highest_slot, items, count,
                   db_count, exc, out_dir, opened, extracted, closes>>
    /\ UNCHANGED outside

(***************************************************************************)
(* export_data up to the try: plyvel.DB(db_dir) opens the store or raises  *)
(* (missing or locked directory); the locals are initialised.              *)
(***************************************************************************)
OpenStore ==
    /\ pc = "export"
    /\ \E opens \in BOOLEAN :
          IF opens
          THEN /\ db' = "open"
               /\ pc' = "loop"
          ELSE /\ db' = db
               /\ pc' = "raised"
    /\ highest_slot' = 1
    /\ items' = NoItems
    /\ count' = 0
    /\ db_count' = 0
    /\ UNCHANGED <<args, item_prefix, sub_db, start_slot, end_slot, step_size,
                   exc, out_dir, opened, extracted, closes>>
    /\ UNCHANGED outside

\* Lines 194-195: if item_slot > highest_slot: highest_slot = item_slot.
track_highest_slot(highest, item_slot) ==
    IF item_slot > highest THEN item_slot ELSE highest

\* The loop without line 208: the buffer is kept after a flush.
keep_items(its) == its

\* Line 208: items = None after the write of a full batch.
reset_items(its) == NoItems

\* The rows a parse call added to each kind of the buffer.
Added(before, after) ==
    [k \in DOMAIN after |->
        SubSeq(after[k], (IF IsNone(before) THEN 0 ELSE Len(before[k])) + 1,
               Len(after[k]))]

(***************************************************************************)
(* One iteration of `for key, value in sub_db`, lines 189-208.             *)
(***************************************************************************)
LoopIteration ==
    /\ pc = "loop"
    /\ db_count < Len(sub_db)
    /\ LET key == db_count + 1
           value == sub_db[key]
           r == parse_fun(key, value, items)
       IN  /\ db_count' = db_count + 1
           /\ IF r.raised
              THEN \* the decode error leaves the loop
                   /\ pc' = "finally"
                   /\ exc' = TRUE
                   /\ UNCHANGED <<highest_slot, items, count, out_dir, opened,
                                  extracted>>
              ELSE /\ highest_slot' = track_highest_slot(highest_slot, r.slot)
                   /\ extracted' = [k \in Kinds |->
                                      extracted[k] \o Added(items, r.items)[k]]
                   /\ IF step_size = 0
                      THEN \* db_count % step_size raises ZeroDivisionError
                           /\ pc' = "finally"
                           /\ exc' = TRUE
                           /\ items' = r.items
                           /\ UNCHANGED <<count, out_dir, opened>>
                      ELSE /\ count' = count + 1
                           /\ IF PyMod(count + 1, step_size) = 0
                              THEN \E fault \in Faults(Kinds, r.items) :
                                     LET w == write_fun(out_dir, count + 1, step_size,
                                                        r.items, fault)
                                     IN  /\ out_dir' = w.dir
                                         /\ opened' = opened \o w.opened
                                         /\ IF w.raised
                                            THEN /\ pc' = "finally"
                                                 /\ exc' = TRUE
                                                 /\ items' = r.items
                                            ELSE /\ pc' = pc
                                                 /\ exc' = exc
                                                 /\ items' = reset_items(r.items)
                              ELSE /\ items' = r.items
                                   /\ UNCHANGED <<pc, exc, out_dir, opened>>
    /\ UNCHANGED <<args, item_prefix, sub_db, start_slot, end_slot, step_size, db,
                   closes>>
    /\ UNCHANGED outside

\* LoopEnd without the test of line 211: the last write always runs, on an
\* empty buffer when nothing is buffered.
LoopEnd_always_writes ==
    /\ pc = "loop"
    /\ db_count = Len(sub_db)
    /\ pc' = "finally"
    /\ LET its == IF ~IsNone(items) THEN items
                  ELSE IF IsBlockPipeline THEN NewBlockItems ELSE NewStateItems
       IN  \E fault \in Faults(Kinds, its) :
              LET w == write_fun(out_dir, count, IF step_size = 0 THEN 1 ELSE step_size,
                                 its, fault)
              IN  /\ out_dir' = w.dir
                  /\ opened' = opened \o w.opened
                  /\ exc' = w.raised
    /\ UNCHANGED <<args, item_prefix, sub_db, start_slot, end_slot, step_size, db,
                   highest_slot, items, count, db_count, extracted, closes>>
    /\ UNCHANGED outside

(***************************************************************************)
(* The cursor is exhausted: the last write of lines 210-212, then the      *)
(* finally block is entered.                                               *)
(***************************************************************************)
LoopEnd ==
    /\ pc = "loop"
    /\ db_count = Len(sub_db)
    /\ pc' = "finally"
    /\ IF ~IsNone(items) /\ \E k \in DOMAIN items : Len(items[k]) > 0
       THEN \E fault \in Faults(Kinds, items) :
              LET w == write_fun(out_dir, count, step_size, items, fault)
              IN  /\ out_dir' = w.dir
                  /\ opened' = opened \o w.opened
                  /\ exc' = w.raised
       ELSE UNCHANGED <<exc, out_dir, opened>>
    /\ UNCHANGED <<args, item_prefix, sub_db, start_slot, end_slot, step_size, db,
                   highest_slot, items, count, db_count, extracted, closes>>
    /\ UNCHANGED outside

\* Finally with db.close() placed after the loop instead of in a finally
\* block: an exception skips it.
Finally_close_after_loop ==
    /\ pc = "finally"
    /\ IF exc
       THEN UNCHANGED <<db, closes>>
       ELSE /\ db' = "closed"
            /\ closes' = closes + 1
    /\ pc' = IF exc THEN "raised" ELSE "returned"
    /\ UNCHANGED <<args, item_prefix, sub_db, start_slot, end_slot, step_size,
                   highest_slot, items, count, db_count, exc, out_dir, opened,
                   extracted>>
    /\ UNCHANGED outside

(***************************************************************************)
(* finally: db.close(), then the function returns or the exception goes on *)
(* to the top level.                                                       *)
(***************************************************************************)
Finally ==
    /\ pc = "finally"
    /\ db' = "closed"
    /\ closes' = closes + 1
    /\ pc' = IF exc THEN "raised" ELSE "returned"
    /\ UNCHANGED <<args, item_prefix, sub_db, start_slot, end_slot, step_size,
                   highest_slot, items, count, db_count, exc, out_dir, opened,
                   extracted>>
    /\ UNCHANGED outside

Next == Main \/ OpenStore \/ LoopIteration \/ LoopEnd \/ Finally

Spec == Init /\ [][Next]_vars

(***************************************************************************)
(* Two invocations: after the first has returned, the script is run again  *)
(* with the same command line over the same store and output directory.    *)
(* The second process starts from fresh locals; the files of the first     *)
(* are still in the directory.                                             *)
(***************************************************************************)
Rerun ==
    /\ pc = "returned"
    /\ runs = 0
    /\ runs' = 1
    /\ first_out' = out_dir
    /\ pc' = "main"
    /\ start_slot' = DefaultStartSlot
    /\ end_slot' = Inf
    /\ step_size' = DefaultStepSize
    /\ db' = "unopened"
    /\ highest_slot' = 1
    /\ items' = NoItems
    /\ count' = 0
    /\ db_count' = 0
    /\ exc' = FALSE
    /\ opened' = <<>>
    /\ extracted' = [k \in Kinds |-> <<>>]
    /\ closes' = 0
    /\ UNCHANGED <<args, item_prefix, sub_db, out_dir, bitlist, bitstr>>

NextTwoRuns == Next \/ Rerun

SpecTwoRuns == Init /\ [][NextTwoRuns]_vars

(***************************************************************************)
(* bitlist_to_str on its own: the function is applied once to a bit vector *)
(* of at most MaxBits bits (0 is an unset bit, 1 a set one).               *)
(***************************************************************************)
Bitlists == SeqUpTo({0, 1}, MaxBits)

InitBits ==
    /\ \E a \in ArgSets : ~a.dirs /\ Start(a, BLOCK_PREFIX, <<>>)
    /\ bitlist \in Bitlists
    /\ bitstr = ""

Convert ==
    /\ pc = "main"
    /\ pc' = "converted"
    /\ bitstr' = bitlist_to_str(bitlist)
    /\ UNCHANGED <<args, item_prefix, sub_db, start_slot, end_slot, step_size, db,
                   highest_slot, items, count, db_count, exc, out_dir, opened,
                   extracted, closes, runs, first_out, bitlist>>

NextBits == Convert

SpecBits == InitBits /\ [][NextBits]_vars

(***************************************************************************)
(* Observations of a run, used to state the properties below.              *)
(***************************************************************************)
\* The run is over: export_data returned, or an exception reached the top.
Terminated == pc \in {"returned", "raised", "exit"}

\* The slot field of a data row of the given kind.
RowSlot(kind, row) ==
    IF kind = "blocks" THEN row[4] ELSE IF kind = "states" THEN row[2] ELSE row[1]

\* The batch indices of the artifacts of a kind that exist in the directory.
BatchIndices(kind) == {f[2] : f \in {g \in DOMAIN out_dir : g[1] = kind}}

Min(S) == CHOOSE m \in S : \A x \in S : m <= x

\* The data rows of the artifacts of a kind with indices idxs, read back in
\* ascending batch-index order.
RECURSIVE ConcatRows(_, _)
ConcatRows(kind, idxs) ==
    IF idxs = {} THEN <<>>
    ELSE out_dir[<<kind, Min(idxs)>>].rows \o ConcatRows(kind, idxs \ {Min(idxs)})

\* The number of data rows of each artifact of a kind, in batch-index order.
RECURSIVE RowCounts(_, _)
RowCounts(kind, idxs) ==
    IF idxs = {} THEN <<>>
    ELSE <<Len(out_dir[<<kind, Min(idxs)>>].rows)>> \o RowCounts(kind, idxs \ {Min(idxs)})

\* The buffer of a single pass over the whole sub_db that never flushes
\* (step_size larger than the item count), from item i on.
RECURSIVE ParseAll(_, _)
ParseAll(i, its) ==
    IF i > Len(sub_db) THEN its
    ELSE ParseAll(i + 1, parse_fun(i, sub_db[i], its).items)

Unbatched(kind) ==
    LET its == ParseAll(1, NoItems) IN IF IsNone(its) THEN <<>> ELSE its[kind]

InSomeArtifact(kind, rec) ==
    \E f \in DOMAIN out_dir :
        /\ f[1] = kind
        /\ \E j \in 1..Len(out_dir[f].rows) : out_dir[f].rows[j] = rec

\* The batch indices a kind's files were opened with, in the order of the opens.
OpenedIndices(kind) ==
    LET fs == SelectSeq(opened, LAMBDA f : f[1] = kind)
    IN  [i \in 1..Len(fs) |-> fs[i][2]]

Ceil(n, s) == (n + s - 1) \div s

\* The kind with one record per stored object.
PrimaryKind == IF IsBlockPipeline THEN "blocks" ELSE "states"

AllDecodable == \A i \in 1..Len(sub_db) : sub_db[i].ok

\* A value that failed to decode has been pulled off the cursor.
DecodeFailed == \E i \in 1..db_count : ~sub_db[i].ok

\* The last write of lines 211-212 ran (or would run) for this buffer.
LastWriteDue == ~IsNone(items) /\ \E k \in DOMAIN items : Len(items[k]) > 0

(***************************************************************************)
(* The properties.                                                         *)
(***************************************************************************)
\* C1: every data row of every artifact has a slot inside the configured
\* window, start_slot <= slot < end_slot.
C1_RangeInvariant ==
    pc # "main" =>
        \A f \in DOMAIN out_dir :
            \A j \in 1..Len(out_dir[f].rows) :
                ~OutOfRange(RowSlot(f[1], out_dir[f].rows[j]), start_slot, end_slot)

\* C2: after a run that returned normally with step_size >= 1, the rows of the
\* artifacts of each kind, concatenated in ascending batch-index order, are
\* exactly the rows of a single pass that never flushes before the end.
C2_BatchReassembly ==
    (pc = "returned" /\ step_size >= 1) =>
        \A k \in Kinds : ConcatRows(k, BatchIndices(k)) = Unbatched(k)

\* C3: when the loop ended normally with a non-empty buffer and the last write
\* was done, every record extracted during the run is in some artifact.
C3_NoRecordDropped ==
    (pc = "returned" /\ LastWriteDue) =>
        \A k \in Kinds :
            \A i \in 1..Len(extracted[k]) : InSomeArtifact(k, extracted[k][i])

\* C4: no file is opened for writing twice in one run: the flushes of a run,
\* the last write included, target pairwise different batch indices.
C4_ArtifactWrittenOnce ==
    \A i, j \in 1..Len(opened) : i # j => opened[i] # opened[j]

\* C5: a completed run over N in-range items with step size S >= 1 leaves
\* ceil(N/S) artifacts of the primary kind, holding S rows each except the
\* last, which holds N - S*(ceil(N/S)-1) rows.
C5_BatchSizing ==
    (/\ pc = "returned"
     /\ step_size >= 1
     /\ args.startslot = NotGiven /\ args.endslot = NotGiven
     /\ AllDecodable) =>
        LET N == Len(sub_db)
            S == step_size
            B == Ceil(N, S)
        IN  RowCounts(PrimaryKind, BatchIndices(PrimaryKind)) =
                [i \in 1..B |-> IF i < B THEN S ELSE N - S * (B - 1)]

\* C6: the batch indices of the artifacts written for a kind are 0, 1, 2, ...
\* in the order the flushes happen.
C6_IndicesFromZero ==
    \A k \in Kinds :
        \A i \in 1..Len(OpenedIndices(k)) : OpenedIndices(k)[i] = i - 1

\* C7: once the store is open, it is closed exactly once on every exit path
\* (normal return, block decode failure, any other exception): it is open and
\* the run can still take a step until export_data is left, and when it is
\* left db.close() has run once.
C7_StoreReleasedOnce ==
    db # "unopened" =>
        /\ closes <= 1
        /\ (db = "closed") <=> (closes = 1)
        /\ (pc \in {"returned", "raised"}) <=> (closes = 1)
        /\ ~Terminated => ENABLED Next

\* C7 witness: a block run whose values all decode with a non-zero step size
\* raised (a write failed during a flush) and closed the store once.
C7_Witness ==
    /\ IsBlockPipeline /\ AllDecodable /\ step_size # 0
    /\ pc = "raised" /\ opened # <<>>
    /\ db = "closed" /\ closes = 1

\* C8: in the block pipeline the step that pulls a value that fails to decode
\* leaves the loop with the exception, and from then on no further pair is
\* pulled, no counter advances, the buffer is not flushed and no artifact is
\* written or changed.
C8_BlockDecodeAborts ==
    [][(IsBlockPipeline /\ DecodeFailed') =>
          /\ pc' \in {"finally", "raised"}
          /\ exc'
          /\ db_count' = IF DecodeFailed THEN db_count ELSE db_count + 1
          /\ UNCHANGED <<count, items, highest_slot, out_dir, opened, extracted>>]_vars

\* C8 witness: a block run ended on a decode failure after an earlier flush
\* and while records were buffered; the buffered records were not written.
C8_Witness ==
    /\ IsBlockPipeline /\ DecodeFailed /\ pc = "raised"
    /\ DOMAIN out_dir # {}
    /\ ~IsNone(items) /\ Len(items.blocks) > 0
    /\ \A i \in 1..Len(items.blocks) : ~InSomeArtifact("blocks", items.blocks[i])

\* The records of the decodable states among the first n values, in order.
RECURSIVE DecodableStates(_)
DecodableStates(n) ==
    IF n = 0 THEN <<>>
    ELSE IF sub_db[n].ok
         THEN Append(DecodableStates(n - 1), extract_state(sub_db[n].obj, n))
         ELSE DecodableStates(n - 1)

\* C9, first part: in the state pipeline a value that fails to decode adds no
\* record and the values after it are still parsed: the records extracted so
\* far are those of the decodable values pulled so far.
C9_FailureSkipped ==
    ~IsBlockPipeline => extracted["states"] = DecodableStates(db_count)

\* C9: a state that fails to decode is skipped without aborting the run, and
\* every decodable in-range state after it is in an artifact when the run has
\* returned.
C9_StateDecodeSkipped ==
    /\ C9_FailureSkipped
    /\ (~IsBlockPipeline /\ pc = "returned" /\ step_size >= 1) =>
          \A i \in 1..Len(sub_db) :
              (/\ sub_db[i].ok
               /\ \E j \in 1..(i - 1) : ~sub_db[j].ok
               /\ ~OutOfRange(sub_db[i].obj.slot, start_slot, end_slot)) =>
                  InSomeArtifact("states", extract_state(sub_db[i].obj, i))

\* C10: a run over an empty namespace never raises and writes no artifact;
\* it can go on until it has returned, and then the store is closed.
C10_EmptyNamespace ==
    (Len(sub_db) = 0 /\ db # "unopened") =>
        /\ DOMAIN out_dir = {}
        /\ opened = <<>>
        /\ pc \in {"loop", "finally", "returned"}
        /\ ~exc
        /\ pc = "returned" => (db = "closed" /\ closes = 1)
        /\ pc # "returned" => ENABLED Next

\* C10 witness: a run over an empty namespace has returned.
C10_Witness ==
    /\ Len(sub_db) = 0 /\ pc = "returned"
    /\ db = "closed" /\ DOMAIN out_dir = {}

\* Line 197 was evaluated: an item was pulled and its parse call returned.
ModuloReached == db_count >= 1 /\ (IsBlockPipeline => sub_db[1].ok)

\* The parse call on the item the cursor yields next raises.
NextParseRaises == parse_fun(db_count + 1, sub_db[db_count + 1], items).raised

\* A step of the loop that pulls one pair off the cursor.
PullsItem == pc = "loop" /\ db_count' = db_count + 1

\* A step of the loop in which write_fun was called: a file was opened, or
\* the step raised although neither the decode nor the modulo did.
FlushStep ==
    /\ pc = "loop"
    /\ \/ opened' # opened
       \/ /\ exc' /\ ~exc /\ step_size # 0
          /\ db_count' # db_count => ~NextParseRaises

\* C12: a flush happens exactly in the steps in which an in-range item was
\* extracted and the number of extracted items is then a positive multiple of
\* step_size; its files carry the index processed // step_size, and after a
\* flush that succeeded the buffer is empty.
C12_FlushTrigger ==
    [][PullsItem =>
         LET processed == Len(extracted'[PrimaryKind])
         IN  /\ FlushStep <=> /\ processed = Len(extracted[PrimaryKind]) + 1
                              /\ step_size >= 1
                              /\ PyMod(processed, step_size) = 0
             /\ FlushStep =>
                   \A i \in (Len(opened) + 1)..Len(opened') :
                       opened'[i][2] = PyFloorDiv(processed, step_size)
             /\ (FlushStep /\ ~exc') =>
                   \/ IsNone(items')
                   \/ \A k \in DOMAIN items' : items'[k] = <<>>]_vars

\* C13: while the loop runs, the processed counter is the number of items
\* that passed the filter and were extracted, and the seen counter is the
\* number of pairs pulled off the cursor.
C13_ProcessedCounter ==
    pc = "loop" =>
        /\ db_count <= Len(sub_db)
        /\ count = Len(extracted[PrimaryKind])
        /\ count <= db_count

Max(S) == CHOOSE m \in S : \A x \in S : m >= x

\* The slots of the items seen so far that decoded.
SeenSlots == {sub_db[i].obj.slot : i \in {j \in 1..db_count : sub_db[j].ok}}

\* C14: in every state the buffer holds at most step_size block records
\* (state records in the state pipeline).
C14_BufferBounded ==
    ~IsNone(items) => Len(items[PrimaryKind]) <= step_size

\* C15: after each item is seen the tracked maximum slot is the maximum of the
\* slots of all items seen so far, and it never decreases.
C15_RunningMaximum ==
    [][(PullsItem /\ ~exc') =>
          /\ highest_slot' >= highest_slot
          /\ SeenSlots' # {} => highest_slot' = Max(SeenSlots')]_vars

\* C17: the modulo of line 197 and the division of the write functions are
\* only reached with a step size of at least 1.
C17_StepSizeAtLeastOne ==
    ModuloReached => step_size >= 1

\* A step of the loop in which a write of write_fun raised.
WriteRaises ==
    /\ pc = "loop" /\ ~exc /\ exc' /\ step_size # 0
    /\ db_count' # db_count => ~NextParseRaises

\* C16: when a write raises during a flush the run aborts (the loop is left
\* for the finally block that closes the store); the files the call wrote
\* before the one it failed on hold the whole batch of their kind, and every
\* artifact of an earlier flush keeps its content.
C16_WriteFailureIsolated ==
    [][WriteRaises =>
         /\ pc' = "finally"
         /\ db' = "open"
         /\ \A i \in (Len(opened) + 1)..(Len(opened') - 1) :
                out_dir'[opened'[i]].rows = items'[opened'[i][1]]
         /\ \A f \in DOMAIN out_dir :
                f \in DOMAIN out_dir' /\ out_dir'[f] = out_dir[f]]_vars

\* The windows parse_block_data is applied to on its own.
Windows == {<<s, e>> : s \in Slots, e \in {Inf} \cup {Finite(n) : n \in 0..(MaxSlot + 1)}}

\* its extends old by exactly the sequence added, per kind.
Appends(old, its, kind, added) ==
    its[kind] = (IF IsNone(old) THEN <<>> ELSE old[kind]) \o added

\* C18: applied to the block the cursor yields next, under any window that
\* has the block in range, parse_block_data appends after the records of the
\* earlier blocks one block record and one record per element of each body
\* list, in list order, each carrying the block's slot; an empty list adds
\* nothing and raises nothing.
C18_OneRecordPerElement ==
    (IsBlockPipeline /\ pc = "loop" /\ db_count < Len(sub_db)
       /\ sub_db[db_count + 1].ok) =>
        LET key == db_count + 1
            b == sub_db[key].obj
        IN  \A w \in Windows :
              ~OutOfRange(b.slot, w[1], w[2]) =>
                LET r == parse_block_data(key, sub_db[key], items, w[1], w[2])
                    add == Added(items, r.items)
                IN  /\ ~r.raised
                    /\ r.slot = b.slot
                    /\ \A k \in DOMAIN r.items : Appends(items, r.items, k, add[k])
                    /\ Len(add.blocks) = 1
                    /\ add.blocks[1][1] = "0x" \o Hex(key)
                    /\ add.blocks[1][4] = b.slot
                    /\ Len(add.attestations) = Len(b.body.attestations)
                    /\ \A i \in 1..Len(b.body.attestations) :
                          /\ add.attestations[i][1] = b.slot
                          /\ add.attestations[i][2] = b.body.attestations[i].slot
                          /\ add.attestations[i][3] = b.body.attestations[i].index
                          /\ add.attestations[i][4] =
                                b.body.attestations[i].beacon_block_root
                    /\ Len(add.deposits) = Len(b.body.deposits)
                    /\ \A i \in 1..Len(b.body.deposits) :
                          /\ add.deposits[i][1] = b.slot
                          /\ add.deposits[i][2] = b.body.deposits[i].pubkey
                    /\ Len(add.exits) = Len(b.body.voluntary_exits)
                    /\ \A i \in 1..Len(b.body.voluntary_exits) :
                          /\ add.exits[i][1] = b.slot
                          /\ add.exits[i][3] = b.body.voluntary_exits[i].validator_index

\* C18 witness: the buffer holds the records of a block with an empty body
\* and of a block with operations, and the next block has operations too.
C18_Witness ==
    /\ IsBlockPipeline /\ pc = "loop" /\ db_count < Len(sub_db)
    /\ sub_db[db_count + 1].ok
    /\ Len(sub_db[db_count + 1].obj.body.attestations) = 2
    /\ ~IsNone(items)
    /\ Len(items.attestations) >= 2
    /\ \E i \in 1..Len(items.blocks) : items.blocks[i][4] = 0

NoDuplicates(seq) == \A i, j \in 1..Len(seq) : seq[i] = seq[j] => i = j

\* C20: when a block run has returned and the item count N is below
\* step_size or a multiple of it, the artifacts of each kind, read in index
\* order, hold the extracted records once each, no file was opened by two
\* flushes, and for a multiple of step_size only the N / step_size flushes of
\* the loop wrote (no last write).
C20_CleanBatches ==
    (/\ IsBlockPipeline /\ pc = "returned" /\ step_size >= 1
     /\ \/ Len(sub_db) < step_size
        \/ PyMod(Len(sub_db), step_size) = 0) =>
        /\ \A k \in Kinds : ConcatRows(k, BatchIndices(k)) = extracted[k]
        /\ Len(extracted.blocks) = Len(sub_db)
        /\ NoDuplicates(opened)
        /\ PyMod(Len(sub_db), step_size) = 0 =>
              /\ Len(opened) = 4 * PyFloorDiv(Len(sub_db), step_size)
              /\ Len(sub_db) > 0 => IsNone(items)

\* C20 witness: a block run over a multiple of step_size items has returned
\* after more than one flush, with operations among the records.
C20_Witness ==
    /\ IsBlockPipeline /\ pc = "returned" /\ step_size >= 1
    /\ Len(sub_db) = 2 * step_size
    /\ Len(opened) = 8
    /\ Len(extracted.attestations) >= 2

\* The strings of n characters over '0' and '1'.
RECURSIVE BitStrings(_)
BitStrings(n) ==
    IF n = 0 THEN {""}
    ELSE {s \o c : s \in BitStrings(n - 1), c \in {"0", "1"}}

\* C19: the string returned for a bit vector has the vector's length, its
\* i-th character is '1' when the i-th bit is set and '0' otherwise, first
\* bit first, and <<1, 0, 1, 1>> gives "1011".
C19_BitString ==
    pc = "converted" =>
        /\ Len(bitstr) = Len(bitlist)
        /\ \A i \in 1..Len(bitlist) :
              \E p \in BitStrings(i - 1), q \in BitStrings(Len(bitlist) - i) :
                  bitstr = p \o (IF bitlist[i] = 1 THEN "1" ELSE "0") \o q
        /\ bitlist = <<1, 0, 1, 1>> => bitstr = "1011"
        /\ bitlist = <<>> => bitstr = ""

\* C19 witness: the vector of the example was converted.
C19_Witness ==
    pc = "converted" /\ bitlist = <<1, 0, 1, 1>> /\ bitstr = "1011"

\* C11: when a second run over the same store with the same arguments has
\* returned, it has written every file of the directory, and the directory
\* holds the artifacts the first run left: the same (kind, index) files, each
\* with the same header and the same rows in the same order.
C11_Deterministic ==
    (runs = 1 /\ pc = "returned") =>
        /\ DOMAIN out_dir = DOMAIN first_out
        /\ \A f \in DOMAIN out_dir :
              /\ \E i \in 1..Len(opened) : opened[i] = f
              /\ out_dir[f].header = first_out[f].header
              /\ out_dir[f].rows = first_out[f].rows

\* C11 witness: both runs returned after several flushes that wrote records.
C11_Witness ==
    /\ runs = 1 /\ pc = "returned"
    /\ Len(opened) >= 2
    /\ \E f \in DOMAIN out_dir : Len(out_dir[f].rows) >= 1
    /\ out_dir = first_out
====
